---- MODULE Spec2Model ----
(***************************************************************************)
(* State-machine model of the numeric routines of nest_utils (utils.py):   *)
(*   fr_window_step, calculate_threshold, calculate_cum_mean,              *)
(*   fitness_function, calculate_fr and attach_spikedetector.              *)
(* Every routine is a loop over an input sequence; one action is one       *)
(* iteration of that loop (the whole loop body), a last action is the code *)
(* after the loop.  Each routine has its own specification (SpecFW,        *)
(* SpecThr, SpecFit, SpecFR, SpecSD); the variables of the other routines  *)
(* stay idle in it.  SpecCum starts either of the two routines that        *)
(* compare a rate with its cumulative mean.                                *)
(*                                                                         *)
(* Numbers.  Times are integer milliseconds.  window/2. is kept exact by   *)
(* doubling both sides of a division; a quotient that the code leaves as a *)
(* float is kept as an exact fraction [num, den].                          *)
(***************************************************************************)
EXTENDS Integers, Sequences, FiniteSets

VARIABLES
    fw_args,        \* fr_window_step: sim_time, window, step, start_time, pop ids
    fw_raster,      \* fr_window_step: the raster elements the loop has consumed
    firing,         \* fr_window_step: the pop_dim x elem_len count matrix
    fw_ret,         \* fr_window_step: the returned dictionary, "none" before
    fw_pc,          \* fr_window_step: "idle" | "loop" | "done"
    thr_args,       \* calculate_threshold: times, smoothed instf, parameters
    thr_k,          \* calculate_threshold: the loop variable k
    threshold,      \* calculate_threshold: threshold of the last trial entered
    logical_res,    \* calculate_threshold: one flag per completed trial
    reaction_times, \* calculate_threshold: one reaction time per completed trial
    thr_pc,         \* calculate_threshold: "idle" | "loop" | "done" | "error"
    cm_args,        \* calculate_cum_mean: times, instf, parameters
    cm_k,           \* calculate_cum_mean: the loop variable k
    cum_mean,       \* calculate_cum_mean: cum_mean of the last trial entered
    cm_logical_res, \* calculate_cum_mean: one flag per completed trial
    cm_pc,          \* calculate_cum_mean: "idle" | "loop" | "done" | "error"
    fit_args,       \* fitness_function: fr, fr_target, fr_weights, conv
    fitness,        \* fitness_function: the returned fitness, "none" before
    fit_prev,       \* fitness_function: the previous call, <<>> before
    fit_pc,         \* fitness_function: "idle" | "call" | "returned"
    cfr_args,       \* calculate_fr: pop_dim_ids[pop_name], t_start, t_end
    cfr_raster,     \* calculate_fr: the raster elements the loop has consumed
    t_prev,         \* calculate_fr: last spike time per slot, -1 before
    ISI_list,       \* calculate_fr: the inter spike intervals per slot
    cfr_ret,        \* calculate_fr: the values computed after the loop
    cfr_pc,         \* calculate_fr: "idle" | "loop" | "done" | "divzero"
    sd_args,        \* attach_spikedetector: pop_list, pop_list_to_ode, sd_list_to_ode
    sd_list,        \* attach_spikedetector: the list being built
    pop_list_to_ode_pointer, \* attach_spikedetector: index into pop_list_to_ode
    sd_pos,         \* attach_spikedetector: populations of pop_list consumed
    nest_created,   \* the simulator: number of spike detectors created
    nest_connected, \* the simulator: the (population, detector) connections
    sd_pc           \* attach_spikedetector: "idle" | "loop" | "done" | "error"

fwVars == <<fw_args, fw_raster, firing, fw_ret, fw_pc>>
thrVars == <<thr_args, thr_k, threshold, logical_res, reaction_times, thr_pc>>
cmVars == <<cm_args, cm_k, cum_mean, cm_logical_res, cm_pc>>
fitVars == <<fit_args, fitness, fit_prev, fit_pc>>
cfrVars == <<cfr_args, cfr_raster, t_prev, ISI_list, cfr_ret, cfr_pc>>
sdVars == <<sd_args, sd_list, pop_list_to_ode_pointer, sd_pos, nest_created,
           nest_connected, sd_pc>>

vars == <<fwVars, thrVars, cmVars, fitVars, cfrVars, sdVars>>

\* ------------------------------------------------------------- arithmetic

\* Python's int(a / b) for b > 0: the quotient truncated toward zero.
TruncDiv(a, b) == IF a >= 0 THEN a \div b ELSE -((-a) \div b)

Abs(x) == IF x < 0 THEN -x ELSE x

\* Python's None for an optional argument (fr_weights=None, t_end=None); an
\* argument that is given is a non-empty tuple.
PyNone == <<>>

RECURSIVE SumSeq(_)
SumSeq(s) == IF s = <<>> THEN 0 ELSE Head(s) + SumSeq(Tail(s))

RECURSIVE SumOver(_, _)
\* The sum of f[x] over the finite set S.
SumOver(f, S) ==
    IF S = {} THEN 0
    ELSE LET x == CHOOSE y \in S : TRUE IN f[x] + SumOver(f, S \ {x})

\* ======================================================= fr_window_step

MaxSpikes == 2
MaxWindow == 4
MaxStep == 3
MaxSpikeTime == 10
FWSimTime == 8

FWWindows == 1..MaxWindow
FWSteps == 1..MaxStep
FWStarts == {0, 3}
FWPopIds == {<<1, 1>>, <<3, 4>>}
FWSpikeTimes == 0..MaxSpikeTime

\* pop_dim = pop_dim_ids[pop_name][1] - pop_dim_ids[pop_name][0] + 1
FWPopDim(a) == a.ids[2] - a.ids[1] + 1

\* elem_len = int((sim_time - start_time) / step) + 1
ElemLen(a) == TruncDiv(a.sim_time - a.start_time, a.step) + 1

\* last_window_index = int((time-start_time + window/2.) / step)
LastWindowIndex(a, time) ==
    TruncDiv(2 * (time - a.start_time) + a.window, 2 * a.step)

\* dt = time - (start_time + last_window_index * step - window/2.), doubled
Dt2(a, time) ==
    2 * time - (2 * a.start_time + 2 * LastWindowIndex(a, time) * a.step - a.window)

\* A faulty variant of HowManyWindBefore: the offset dt is forgotten, int(window / step).
HowManyWindBefore_NoOffset(a, time) == TruncDiv(2 * a.window, 2 * a.step)

\* how_many_wind_before = int((window - dt) / step)
HowManyWindBefore(a, time) == TruncDiv(2 * a.window - Dt2(a, time), 2 * a.step)

\* The elements the inner loop visits: last_window_index - j, j in
\* range(how_many_wind_before + 1) (empty when how_many_wind_before < 0).
VisitedElems(a, time) ==
    { LastWindowIndex(a, time) - j : j \in 0..HowManyWindBefore(a, time) }

\* if 0 <= elem < elem_len: firing[int(index), elem] += 1
CountedElems(a, time) ==
    { e \in VisitedElems(a, time) : 0 <= e /\ e < ElemLen(a) }

\* np.linspace(a, b, n): n evenly spaced samples from a to b inclusive.
Linspace(a, b, n) ==
    [k \in 0..(n - 1) |-> IF n = 1 THEN a ELSE a + (k * (b - a)) \div (n - 1)]

FWStart ==
    /\ fw_args \in [sim_time : {FWSimTime}, window : FWWindows, step : FWSteps,
                    start_time : FWStarts, ids : FWPopIds]
    /\ fw_raster = <<>>
    /\ firing = [n \in 0..(FWPopDim(fw_args) - 1) |->
                    [k \in 0..(ElemLen(fw_args) - 1) |-> 0]]
    /\ fw_ret = "none"
    /\ fw_pc = "loop"

FWIdle ==
    /\ fw_args = "none"
    /\ fw_raster = <<>>
    /\ firing = "none"
    /\ fw_ret = "none"
    /\ fw_pc = "idle"

\* One iteration of "for index, time in zip(i, t)" on the raster element
\* (time, id): i = raster['neurons_idx'] - pop_dim_ids[pop_name][0].
FWSpike(time, id) ==
    /\ fw_pc = "loop"
    /\ Len(fw_raster) < MaxSpikes
    /\ LET index == id - fw_args.ids[1]
           hit == CountedElems(fw_args, time)
       IN firing' = [firing EXCEPT ![index] =
                        [k \in DOMAIN firing[index] |->
                            IF k \in hit THEN firing[index][k] + 1
                            ELSE firing[index][k]]]
    /\ fw_raster' = Append(fw_raster, [time |-> time, id |-> id])
    /\ UNCHANGED <<fw_args, fw_ret, fw_pc, thrVars, cmVars, fitVars, cfrVars, sdVars>>

\* After the loop: fr = firing / (window / 1000.0), the bin centers, the
\* returned dictionary.  A rate is the exact fraction num/den.
FWReturn ==
    /\ fw_pc = "loop"
    /\ fw_ret' = [times |-> Linspace(fw_args.start_time,
                                     fw_args.start_time
                                        + fw_args.step * (ElemLen(fw_args) - 1),
                                     ElemLen(fw_args)),
                  instant_fr |-> [n \in DOMAIN firing |->
                                    [k \in DOMAIN firing[n] |->
                                        [num |-> firing[n][k] * 1000,
                                         den |-> fw_args.window]]]]
    /\ fw_pc' = "done"
    /\ UNCHANGED <<fw_args, fw_raster, firing, thrVars, cmVars, fitVars, cfrVars, sdVars>>

FWNext ==
    \/ \E time \in FWSpikeTimes :
         \E id \in (fw_args.ids[1])..(fw_args.ids[2]) : FWSpike(time, id)
    \/ FWReturn


\* ==================================================== calculate_threshold

MaxSamples == 5
MaxTrials == 2
ThrGridStep == 100

ThrRates == {0, 1, 3}
ThrSettling == {0, ThrGridStep}
ThrSimTimes == {3 * ThrGridStep}
ThrMFTimes == {0, ThrGridStep}
ThrIOTimes == {2 * ThrGridStep, 3 * ThrGridStep}
ThrSlopes == {1, 2}
ThrIntercepts == {-1, 1}

\* A faulty variant of NegSlice: the first n elements, seq[:n].
NegSlice_Prefix(seq, n) ==
    IF n >= Len(seq) THEN seq ELSE SubSeq(seq, 1, n)

\* Python's seq[-n:] for n >= 0: the last n elements, and the whole sequence
\* when n = 0 (-0 is 0) or n >= len(seq).
NegSlice(seq, n) ==
    IF n = 0 \/ n >= Len(seq) THEN seq
    ELSE SubSeq(seq, Len(seq) - n + 1, Len(seq))

\* The length of a - b for one-dimensional arrays of lengths la and lb under
\* numpy broadcasting; -1 when the shapes cannot be broadcast (ValueError).
BroadcastLen(la, lb) ==
    IF la = lb THEN la
    ELSE IF la = 1 THEN lb
    ELSE IF lb = 1 THEN la
    ELSE -1

\* Element i of an array of length la broadcast against a longer one.
BroadcastAt(a, i) == IF Len(a) = 1 THEN a[1] ELSE a[i]

RECURSIVE MaskedFrom(_, _, _, _)
\* The indices i >= from, in order, with lo < times[i] <= hi: the positions
\* np.logical_and(times <= hi, times > lo) selects.
MaskedFrom(times, lo, hi, from) ==
    IF from > Len(times) THEN <<>>
    ELSE (IF times[from] > lo /\ times[from] <= hi THEN <<from>> ELSE <<>>)
            \o MaskedFrom(times, lo, hi, from + 1)

Masked(times, lo, hi) == MaskedFrom(times, lo, hi, 1)

\* instf[mask]
Take(instf, idx) == [j \in 1..Len(idx) |-> instf[idx[j]]]

\* in_fr1.mean(): the fraction sum/len; den = 0 is numpy's nan (empty slice).
Mean(x) == [num |-> SumSeq(x), den |-> Len(x)]

\* threshold = baseline * m1 + q
Threshold(baseline, m1, q) ==
    [num |-> baseline.num * m1 + q * baseline.den, den |-> baseline.den]

\* np.cumsum(in_fr1) / np.cumsum(np.ones(len(in_fr1))) * m2
CumMean(x, m2) ==
    [j \in 1..Len(x) |-> [num |-> SumSeq(SubSeq(x, 1, j)) * m2, den |-> j]]

\* (f - x) < 0. for the fraction f; a comparison with nan is False.
DiffNegative(f, x) == f.den > 0 /\ f.num - x * f.den < 0

\* A faulty variant of CombinedCR: np.logical_or in place of np.logical_and.
CombinedCR_Or(d1, d2) == d1 \/ d2

\* CR = np.logical_and(diff1 < 0., diff2 < 0.), one element
CombinedCR(d1, d2) == d1 /\ d2

\* The first index j with CR[j] True (the loop with break over zip(times, CR)).
FirstTrue(CR) == CHOOSE j \in 1..Len(CR) : CR[j] /\ \A h \in 1..(j - 1) : ~CR[h]

\* The quantities of iteration k of "for k in range(trials)".
ThrT0(a, k) == a.settling_time + k * a.sim_time
ThrTRef(a, k) == a.settling_time + k * a.sim_time + a.MF_time + 100
ThrTf2(a, k) == a.settling_time + k * a.sim_time + a.IO_time

\* in_fr1 of the threshold part: the baseline samples, times in (t0, tf1]
BaselineIdx(a, k) == Masked(a.times, ThrT0(a, k), ThrTRef(a, k))
\* in_fr1 of the cumulative part: times in (t0, t0 + IO_time]
CumIdx(a, k) == Masked(a.times, ThrT0(a, k), ThrTf2(a, k))
\* in_fr2: times in (t_ref, tf2]
LaterIdx(a, k) == Masked(a.times, ThrTRef(a, k), ThrTf2(a, k))

TrialThreshold(a, k) ==
    Threshold(Mean(Take(a.instf, BaselineIdx(a, k))), a.m1, a.q)

\* cum_mean[-len(in_fr2):]
CumMeanTail(a, k) ==
    NegSlice(CumMean(Take(a.instf, CumIdx(a, k)), a.m2), Len(LaterIdx(a, k)))

\* The length of diff2, -1 when the subtraction raises.
Diff2Len(a, k) == BroadcastLen(Len(CumMeanTail(a, k)), Len(LaterIdx(a, k)))

\* CR of iteration k (defined when Diff2Len is not -1).
TrialCR(a, k) ==
    LET in_fr2 == Take(a.instf, LaterIdx(a, k))
        thr == TrialThreshold(a, k)
        tail == CumMeanTail(a, k)
    IN [j \in 1..Diff2Len(a, k) |->
            CombinedCR(DiffNegative(thr, BroadcastAt(in_fr2, j)),
                       DiffNegative(BroadcastAt(tail, j), BroadcastAt(in_fr2, j)))]

ThrStart ==
    /\ \E instf \in [1..MaxSamples -> ThrRates] :
         thr_args \in [times : {[i \in 1..MaxSamples |-> i * ThrGridStep]},
                       instf : {instf},
                       trials : 1..MaxTrials,
                       settling_time : ThrSettling,
                       sim_time : ThrSimTimes,
                       MF_time : ThrMFTimes,
                       IO_time : ThrIOTimes,
                       m1 : ThrSlopes, q : ThrIntercepts, m2 : ThrSlopes]
    /\ thr_k = 0
    /\ threshold = "none"
    /\ logical_res = <<>>
    /\ reaction_times = <<>>
    /\ thr_pc = "loop"

ThrIdle ==
    /\ thr_args = "none"
    /\ thr_k = 0
    /\ threshold = "none"
    /\ logical_res = <<>>
    /\ reaction_times = <<>>
    /\ thr_pc = "idle"

\* One iteration of "for k in range(trials)": the threshold, the cumulative
\* mean, CR, and the entries appended to reaction_times and logical_res.
\* The subtraction cum_mean[-len(in_fr2):] - in_fr2 raises when the two
\* shapes cannot be broadcast; the function then returns nothing.
ThrTrial ==
    /\ thr_pc = "loop"
    /\ thr_k < thr_args.trials
    /\ threshold' = TrialThreshold(thr_args, thr_k)
    /\ IF Diff2Len(thr_args, thr_k) = -1
       THEN /\ thr_pc' = "error"
            /\ UNCHANGED <<thr_k, logical_res, reaction_times>>
       ELSE LET CR == TrialCR(thr_args, thr_k)
                later == LaterIdx(thr_args, thr_k)
            IN /\ IF \E j \in 1..Len(CR) : CR[j]
                  THEN /\ reaction_times' =
                            Append(reaction_times,
                                   thr_args.times[later[FirstTrue(CR)]]
                                     - (thr_args.settling_time
                                          + thr_k * thr_args.sim_time
                                          + thr_args.MF_time))
                       /\ logical_res' = Append(logical_res, TRUE)
                  ELSE /\ reaction_times' = Append(reaction_times, -1)
                       /\ logical_res' = Append(logical_res, FALSE)
               /\ thr_k' = thr_k + 1
               /\ thr_pc' = "loop"
    /\ UNCHANGED <<thr_args, fwVars, cmVars, fitVars, cfrVars, sdVars>>

\* return threshold, logical_res, reaction_times
ThrReturn ==
    /\ thr_pc = "loop"
    /\ thr_k = thr_args.trials
    /\ thr_pc' = "done"
    /\ UNCHANGED <<thr_args, thr_k, threshold, logical_res, reaction_times,
                   fwVars, cmVars, fitVars, cfrVars, sdVars>>

ThrNext == ThrTrial \/ ThrReturn

\* ===================================================== calculate_cum_mean

\* t_ref = settling_time + k * sim_time + MF_time + 150
CmTRef(a, k) == a.settling_time + k * a.sim_time + a.MF_time + 150

\* in_fr2: times in (t_ref, tf2]
CmLaterIdx(a, k) == Masked(a.times, CmTRef(a, k), ThrTf2(a, k))

\* cum_mean of iteration k, over in_fr1: times in (t0, tf1]
CmCumMean(a, k) == CumMean(Take(a.instf, CumIdx(a, k)), a.m)

\* The length of diff = cum_mean[-len(in_fr2):] - in_fr2, -1 when the
\* subtraction raises.
CmDiffLen(a, k) ==
    BroadcastLen(Len(NegSlice(CmCumMean(a, k), Len(CmLaterIdx(a, k)))),
                 Len(CmLaterIdx(a, k)))

\* np.any(diff < 0.)
CmAnyNegative(a, k) ==
    LET in_fr2 == Take(a.instf, CmLaterIdx(a, k))
        tail == NegSlice(CmCumMean(a, k), Len(in_fr2))
    IN \E j \in 1..CmDiffLen(a, k) :
            DiffNegative(BroadcastAt(tail, j), BroadcastAt(in_fr2, j))

CmStart ==
    /\ \E instf \in [1..MaxSamples -> ThrRates] :
         cm_args \in [times : {[i \in 1..MaxSamples |-> i * ThrGridStep]},
                      instf : {instf},
                      trials : 1..MaxTrials,
                      settling_time : ThrSettling,
                      sim_time : ThrSimTimes,
                      MF_time : ThrMFTimes,
                      IO_time : ThrIOTimes,
                      m : ThrSlopes]
    /\ cm_k = 0
    /\ cum_mean = "none"
    /\ cm_logical_res = <<>>
    /\ cm_pc = "loop"

CmIdle ==
    /\ cm_args = "none"
    /\ cm_k = 0
    /\ cum_mean = "none"
    /\ cm_logical_res = <<>>
    /\ cm_pc = "idle"

\* One iteration of "for k in range(trials)" of calculate_cum_mean.  The
\* subtraction cum_mean[-len(in_fr2):] - in_fr2 raises when the two shapes
\* cannot be broadcast; the function then returns nothing.
CmTrial ==
    /\ cm_pc = "loop"
    /\ cm_k < cm_args.trials
    /\ cum_mean' = CmCumMean(cm_args, cm_k)
    /\ IF CmDiffLen(cm_args, cm_k) = -1
       THEN /\ cm_pc' = "error"
            /\ UNCHANGED <<cm_k, cm_logical_res>>
       ELSE /\ cm_logical_res' = Append(cm_logical_res, CmAnyNegative(cm_args, cm_k))
            /\ cm_k' = cm_k + 1
            /\ cm_pc' = "loop"
    /\ UNCHANGED <<cm_args, fwVars, thrVars, fitVars, cfrVars, sdVars>>

\* return cum_mean, logical_res
CmReturn ==
    /\ cm_pc = "loop"
    /\ cm_k = cm_args.trials
    /\ cm_pc' = "done"
    /\ UNCHANGED <<cm_args, cm_k, cum_mean, cm_logical_res,
                   fwVars, thrVars, fitVars, cfrVars, sdVars>>

CmNext == CmTrial \/ CmReturn


\* ====================================================== fitness_function

FitMaxRate == 3

FitPops == {1, 2}
FitRates == 0..FitMaxRate
FitTargets == {1, 2}
FitWeightValues == {-1, 0, 2}
FitConvs == {0, 1, 4}

\* dist = np.array(fr) - fr_target; if fr_weights is not None:
\*     dist = dist * fr_weights
WeightedDist(a) ==
    [i \in FitPops |->
        IF a.fr_weights # PyNone
        THEN (a.fr[i] - a.fr_target[i]) * a.fr_weights[i]
        ELSE a.fr[i] - a.fr_target[i]]

\* A faulty variant of FitnessCereb: the weights multiply the squared distances.
FitnessCereb_WeightAfterSquare(a) ==
    SumOver([i \in FitPops |->
                (a.fr[i] - a.fr_target[i]) * (a.fr[i] - a.fr_target[i])
                  * (IF a.fr_weights # PyNone THEN a.fr_weights[i] ELSE 1)],
            FitPops)

\* dist = np.power(dist, 2); fitness_Cereb = np.sum(dist)
FitnessCereb(a) ==
    SumOver([i \in FitPops |-> WeightedDist(a)[i] * WeightedDist(a)[i]], FitPops)

\* A faulty variant of FitnessFunction: the distance term enters with the wrong sign.
FitnessFunction_PlusDistance(a) ==
    [num |-> 2 * FitnessCereb(a) + a.conv, den |-> 2]

\* fitness_fourier = conv / 2; fitness = - fitness_Cereb + fitness_fourier,
\* as the exact fraction num/den.  conv, the wavelet-band sum the code derives
\* from mass_fr with scipy's cwt, is an input here.
FitnessFunction(a) ==
    [num |-> -(2 * FitnessCereb(a)) + a.conv, den |-> 2]

FitStart ==
    /\ fit_args \in [fr : [FitPops -> FitRates],
                     fr_target : [FitPops -> FitTargets],
                     fr_weights : {PyNone} \cup [FitPops -> FitWeightValues],
                     conv : FitConvs]
    /\ fitness = "none"
    /\ fit_prev = <<>>
    /\ fit_pc = "call"

FitIdle ==
    /\ fit_args = "none"
    /\ fitness = "none"
    /\ fit_prev = <<>>
    /\ fit_pc = "idle"

\* The call fitness_function(fr, fr_target, mass_fr, ..., fr_weights).
FitCall ==
    /\ fit_pc = "call"
    /\ fitness' = FitnessFunction(fit_args)
    /\ fit_pc' = "returned"
    /\ UNCHANGED <<fit_args, fit_prev, fwVars, thrVars, cmVars, cfrVars, sdVars>>

\* A further call in which the rate of population i is v and every other
\* argument is the same; the previous call is remembered.
FitCallAgain(i, v) ==
    /\ fit_pc = "returned"
    /\ fit_prev = <<>>
    /\ v # fit_args.fr[i]
    /\ fit_prev' = <<[pop |-> i, fr |-> fit_args.fr, fitness |-> fitness]>>
    /\ fit_args' = [fit_args EXCEPT !.fr[i] = v]
    /\ fitness' = FitnessFunction(fit_args')
    /\ UNCHANGED <<fit_pc, fwVars, thrVars, cmVars, cfrVars, sdVars>>

FitNext ==
    \/ FitCall
    \/ \E i \in FitPops : \E v \in FitRates : FitCallAgain(i, v)


\* ========================================================== calculate_fr

MaxFRSpikes == 3
MaxFRTime == 4

FRPopIds == {<<1, 2>>, <<5, 7>>}
FRTStarts == {0, 1}
FRTEnds == {PyNone, <<3>>}
FRTimes == 0..MaxFRTime

\* pop_dim = pop_dim_ids[pop_name][1] - pop_dim_ids[pop_name][0] + 1
CfrPopDim(a) == a.ids[2] - a.ids[1] + 1

\* A faulty variant of PySlot: the index -1 is taken as the position 1.
PySlot_Abs(a, id) == Abs(id - a.ids[1] - 1)

\* The position that t_prev[idx] and ISI_list[idx] address for
\* idx = neurons_idx - pop_dim_ids[pop_name][0] - 1: a negative index
\* counts from the end of the array.
PySlot(a, id) ==
    LET idx == id - a.ids[1] - 1
    IN IF idx < 0 THEN idx + CfrPopDim(a) ELSE idx

\* A faulty variant of CfrInWindow: the upper end of the window is not tested.
CfrInWindow_NoEnd(a, tt) == tt > a.t_start

\* if tt > t_start: if tt < t_end  (t_end = np.inf when t_end is None)
CfrInWindow(a, tt) ==
    /\ tt > a.t_start
    /\ (a.t_end = PyNone \/ tt < a.t_end[1])

\* A faulty variant of KeepISI: no test of the interval.
KeepISI_Always(ISI) == TRUE

\* if ISI != 0
KeepISI(ISI) == ISI # 0

\* Fractions [num, den] with den > 0.
FracAdd(x, y) == [num |-> x.num * y.den + y.num * x.den, den |-> x.den * y.den]

RECURSIVE FracSum(_, _)
\* The sum of the fractions f[0], ..., f[n-1].
FracSum(f, n) ==
    IF n = 0 THEN [num |-> 0, den |-> 1]
    ELSE FracAdd(FracSum(f, n - 1), f[n - 1])

\* round(x, 2) of a fraction x >= 0: the nearest hundredth, a tie to the even
\* one, as the fraction h/100.
Round2(x) ==
    LET q == (100 * x.num) \div x.den
        r == (100 * x.num) % x.den
        h == IF 2 * r > x.den \/ (2 * r = x.den /\ q % 2 = 1) THEN q + 1 ELSE q
    IN [num |-> h, den |-> 100]

RECURSIVE ISqrtBetween(_, _, _)
\* The largest r in lo..hi with r*r <= x (lo*lo <= x).
ISqrtBetween(x, lo, hi) ==
    IF lo >= hi THEN lo
    ELSE LET mid == (lo + hi + 1) \div 2
         IN IF mid * mid <= x THEN ISqrtBetween(x, mid, hi)
            ELSE ISqrtBetween(x, lo, mid - 1)

\* The square of the sequence's elements, summed.
SumSquares(x) == SumSeq([j \in 1..Len(x) |-> x[j] * x[j]])

\* 1000. / (sum(elem) / len(elem)) if len(elem) != 0 else 0.
InvMeanISI(elem) ==
    IF Len(elem) # 0 THEN [num |-> 1000 * Len(elem), den |-> SumSeq(elem)]
    ELSE [num |-> 0, den |-> 1]

\* np.array(sublist).std() / np.array(sublist).mean() if len(sublist) != 0
\* else 0.  std/mean is sqrt(n*sum(x^2) - sum(x)^2) / sum(x); the square root
\* is kept to three decimals, as the fraction r/1000.
CVElem(sublist) ==
    IF Len(sublist) # 0
    THEN LET n == Len(sublist)
             sq == (n * SumSquares(sublist) - SumSeq(sublist) * SumSeq(sublist))
                     * 1000000
             d == SumSeq(sublist) * SumSeq(sublist)
         IN [num |-> ISqrtBetween(sq \div d, 0, 1000 * n), den |-> 1000]
    ELSE [num |-> 0, den |-> 1]

\* A division whose divisor is 0: the mean ISI of a slot, or the mean of a
\* slot's ISIs under its standard deviation.
CfrDividesByZero(isi) ==
    \E n \in DOMAIN isi : Len(isi[n]) # 0 /\ SumSeq(isi[n]) = 0

\* arr.mean() of the per-slot fractions f[0..pop_dim-1].
FracMean(f, pop_dim) ==
    [num |-> FracSum(f, pop_dim).num, den |-> FracSum(f, pop_dim).den * pop_dim]

CfrStart ==
    /\ cfr_args \in [ids : FRPopIds, t_start : FRTStarts, t_end : FRTEnds]
    /\ cfr_raster = <<>>
    /\ t_prev = [n \in 0..(CfrPopDim(cfr_args) - 1) |-> -1]
    /\ ISI_list = [n \in 0..(CfrPopDim(cfr_args) - 1) |-> <<>>]
    /\ cfr_ret = <<>>
    /\ cfr_pc = "loop"

CfrIdle ==
    /\ cfr_args = <<>>
    /\ cfr_raster = <<>>
    /\ t_prev = <<>>
    /\ ISI_list = <<>>
    /\ cfr_ret = <<>>
    /\ cfr_pc = "idle"

\* One iteration of "for tt, idx in zip(raster['times'], raster['neurons_idx']
\* - pop_dim_ids[pop_name][0] - 1)" on the raster element (tt, id).  The
\* spikes of one neuron come in the order of their times (a recording device
\* appends a sender's events as simulated time advances); the spikes of
\* different neurons may interleave in any order.
CfrSpike(tt, id) ==
    /\ cfr_pc = "loop"
    /\ Len(cfr_raster) < MaxFRSpikes
    /\ \A i \in 1..Len(cfr_raster) : cfr_raster[i].id = id => cfr_raster[i].time <= tt
    /\ cfr_raster' = Append(cfr_raster, [time |-> tt, id |-> id])
    /\ LET idx == PySlot(cfr_args, id)
       IN IF CfrInWindow(cfr_args, tt)
          THEN IF t_prev[idx] = -1
               THEN /\ t_prev' = [t_prev EXCEPT ![idx] = tt]
                    /\ UNCHANGED ISI_list
               ELSE LET ISI == tt - t_prev[idx]
                    IN IF KeepISI(ISI)
                       THEN /\ ISI_list' = [ISI_list EXCEPT
                                              ![idx] = ISI_list[idx] \o <<ISI>>]
                            /\ t_prev' = [t_prev EXCEPT ![idx] = tt]
                       ELSE UNCHANGED <<t_prev, ISI_list>>
          ELSE UNCHANGED <<t_prev, ISI_list>>
    /\ UNCHANGED <<cfr_args, cfr_ret, cfr_pc, fwVars, thrVars, cmVars, fitVars, sdVars>>

\* After the loop: inv_mean_ISI, fr = round(inv_mean_ISI.mean(), 2) and, with
\* return_CV_name=True, CV_el and round(CV_el.mean(), 2).
CfrFinish ==
    /\ cfr_pc = "loop"
    /\ IF CfrDividesByZero(ISI_list)
       THEN /\ cfr_pc' = "divzero"
            /\ UNCHANGED cfr_ret
       ELSE LET pop_dim == CfrPopDim(cfr_args)
                inv_mean_ISI == [n \in 0..(pop_dim - 1) |-> InvMeanISI(ISI_list[n])]
                CV_el == [n \in 0..(pop_dim - 1) |-> CVElem(ISI_list[n])]
            IN /\ cfr_ret' = <<[inv_mean_ISI |-> inv_mean_ISI,
                                fr |-> Round2(FracMean(inv_mean_ISI, pop_dim)),
                                CV_el |-> CV_el,
                                CV |-> Round2(FracMean(CV_el, pop_dim))]>>
               /\ cfr_pc' = "done"
    /\ UNCHANGED <<cfr_args, cfr_raster, t_prev, ISI_list,
                   fwVars, thrVars, cmVars, fitVars, sdVars>>

CfrNext ==
    \/ \E tt \in FRTimes :
         \E id \in (cfr_args.ids[1])..(cfr_args.ids[2]) : CfrSpike(tt, id)
    \/ CfrFinish


\* ================================================== attach_spikedetector

MaxPops == 3

SdPops == 1..MaxPops

\* The lists of distinct populations.
SdPopLists ==
    { l \in UNION { [1..n -> SdPops] : n \in 0..MaxPops } :
        \A i \in 1..Len(l) : \A j \in 1..Len(l) : i # j => l[i] # l[j] }

RECURSIVE Pick(_, _, _)
\* The elements of l at the positions of keep, from position i on, in order.
Pick(l, keep, i) ==
    IF i > Len(l) THEN <<>>
    ELSE (IF i \in keep THEN <<l[i]>> ELSE <<>>) \o Pick(l, keep, i + 1)

\* The in-order subsequences of l.
SubLists(l) == { Pick(l, keep, 1) : keep \in SUBSET (1..Len(l)) }

\* The detector that was set up beforehand for population pop.
GivenDetector(pop) == [kind |-> "given", id |-> pop]

\* nest.Create('spike_detector', ...): the n-th detector the call creates.
CreatedDetector(n) == [kind |-> "created", id |-> n]

SdStart ==
    /\ \E pl \in SdPopLists :
         \E ode \in {PyNone} \cup { <<sub>> : sub \in SubLists(pl) } :
            sd_args = [pop_list |-> pl,
                       pop_list_to_ode |-> ode,
                       sd_list_to_ode |->
                          IF ode = PyNone THEN PyNone
                          ELSE <<[j \in 1..Len(ode[1]) |-> GivenDetector(ode[1][j])]>>]
    /\ sd_list = <<>>
    /\ pop_list_to_ode_pointer = 0
    /\ sd_pos = 0
    /\ nest_created = 0
    /\ nest_connected = {}
    /\ sd_pc = "loop"

SdIdle ==
    /\ sd_args = <<>>
    /\ sd_list = <<>>
    /\ pop_list_to_ode_pointer = 0
    /\ sd_pos = 0
    /\ nest_created = 0
    /\ nest_connected = {}
    /\ sd_pc = "idle"

\* sd = nest.Create('spike_detector', ...); nest.Connect(pop, sd);
\* sd_list = sd_list + [sd]
SdCreateAndConnect(pop) ==
    /\ nest_created' = nest_created + 1
    /\ nest_connected' = nest_connected \cup {<<pop, CreatedDetector(nest_created + 1)>>}
    /\ sd_list' = Append(sd_list, CreatedDetector(nest_created + 1))

\* One iteration of "for pop in pop_list", in either branch of
\* "if pop_list_to_ode is not None".  pop_list_to_ode[pointer] raises
\* IndexError when pointer = len(pop_list_to_ode).
SdLoop ==
    /\ sd_pc = "loop"
    /\ sd_pos < Len(sd_args.pop_list)
    /\ LET pop == sd_args.pop_list[sd_pos + 1]
           given == sd_args.pop_list_to_ode # PyNone
       IN IF given
          THEN LET ode == sd_args.pop_list_to_ode[1]
                   sds == sd_args.sd_list_to_ode[1]
               IN IF pop_list_to_ode_pointer >= Len(ode)
                  THEN /\ sd_pc' = "error"
                       /\ UNCHANGED <<sd_list, pop_list_to_ode_pointer, sd_pos,
                                      nest_created, nest_connected>>
                  ELSE /\ IF ode[pop_list_to_ode_pointer + 1] = pop
                          THEN /\ sd_list' = Append(sd_list,
                                                    sds[pop_list_to_ode_pointer + 1])
                               /\ pop_list_to_ode_pointer' =
                                    IF pop_list_to_ode_pointer < Len(ode)
                                    THEN pop_list_to_ode_pointer + 1
                                    ELSE pop_list_to_ode_pointer
                               /\ UNCHANGED <<nest_created, nest_connected>>
                          ELSE /\ SdCreateAndConnect(pop)
                               /\ UNCHANGED pop_list_to_ode_pointer
                       /\ sd_pos' = sd_pos + 1
                       /\ sd_pc' = "loop"
          ELSE /\ SdCreateAndConnect(pop)
               /\ sd_pos' = sd_pos + 1
               /\ UNCHANGED <<pop_list_to_ode_pointer, sd_pc>>
    /\ UNCHANGED <<sd_args, fwVars, thrVars, cmVars, fitVars, cfrVars>>

\* return sd_list
SdReturn ==
    /\ sd_pc = "loop"
    /\ sd_pos = Len(sd_args.pop_list)
    /\ sd_pc' = "done"
    /\ UNCHANGED <<sd_args, sd_list, pop_list_to_ode_pointer, sd_pos, nest_created,
                   nest_connected, fwVars, thrVars, cmVars, fitVars, cfrVars>>

SdNext == SdLoop \/ SdReturn

\* ========================================================= specifications

FWInit == FWStart /\ ThrIdle /\ FitIdle /\ CfrIdle /\ SdIdle /\ CmIdle
SpecFW == FWInit /\ [][FWNext]_vars

ThrInit == ThrStart /\ FWIdle /\ FitIdle /\ CfrIdle /\ SdIdle /\ CmIdle
SpecThr == ThrInit /\ [][ThrNext]_vars

FitInit == FitStart /\ FWIdle /\ ThrIdle /\ CfrIdle /\ SdIdle /\ CmIdle
SpecFit == FitInit /\ [][FitNext]_vars

CfrInit == CfrStart /\ FWIdle /\ ThrIdle /\ FitIdle /\ SdIdle /\ CmIdle
SpecFR == CfrInit /\ [][CfrNext]_vars

SdInit == SdStart /\ FWIdle /\ ThrIdle /\ FitIdle /\ CfrIdle /\ CmIdle
SpecSD == SdInit /\ [][SdNext]_vars

\* Either of the two routines that compare the rate with its cumulative mean
\* is called: calculate_threshold or calculate_cum_mean.
CmInit == CmStart /\ FWIdle /\ ThrIdle /\ FitIdle /\ CfrIdle /\ SdIdle
CumInit == ThrInit \/ CmInit
CumNext == ThrNext \/ CmNext
SpecCum == CumInit /\ [][CumNext]_vars

\* ------------------------------------------------ fr_window_step: claims

\* The row of neuron id, and the ids of the population.
FWRows == 0..(FWPopDim(fw_args) - 1)
FWBins == 0..(ElemLen(fw_args) - 1)

\* The center of bin k: times[k] = start_time + k*step.
BinCenter(k) == fw_args.start_time + k * fw_args.step

\* time lies in the (closed) window of width window centered at bin k.
InWindowOfBin(time, k) ==
    /\ 2 * BinCenter(k) - fw_args.window <= 2 * time
    /\ 2 * time <= 2 * BinCenter(k) + fw_args.window

\* The number of raster elements of neuron (first id + n) inside bin k's window.
SpikesInWindow(n, k) ==
    Cardinality({ i \in 1..Len(fw_raster) :
                    /\ fw_raster[i].id = fw_args.ids[1] + n
                    /\ InWindowOfBin(fw_raster[i].time, k) })

\* time is before the first window opens / after the last window closes.
BeforeFirstWindow(time) == 2 * time < 2 * fw_args.start_time - fw_args.window
AfterLastWindow(time) ==
    2 * time > 2 * BinCenter(ElemLen(fw_args) - 1) + fw_args.window

\* C1 (as claimed): when no spike precedes the opening of the first window,
\* every returned rate instant_fr[n][k] is the number of spikes of neuron
\* first+n inside the window centered at times[k], divided by window/1000.
C1_RateIsWindowCount ==
    (/\ fw_pc = "done"
     /\ \A i \in 1..Len(fw_raster) : ~BeforeFirstWindow(fw_raster[i].time))
    => \A n \in FWRows : \A k \in FWBins :
          /\ fw_ret.times[k] = BinCenter(k)
          /\ fw_ret.instant_fr[n][k].num * fw_args.window
                = SpikesInWindow(n, k) * 1000 * fw_ret.instant_fr[n][k].den

\* The bins a single spike has incremented, in the row of its neuron.
IncrementedBins == { k \in FWBins : firing[fw_raster[1].id - fw_args.ids[1]][k] > 0 }

\* A set of integers with consecutive members.
Consecutive(S) == \A x \in S : \A y \in S : \A z \in x..y : z \in S

\* The single spike's case of C2: one raster element, and none of the bins
\* the loop visits for it lies outside 0..elem_len-1.
SingleSpikeInBounds ==
    /\ fw_pc = "loop"
    /\ Len(fw_raster) = 1
    /\ VisitedElems(fw_args, fw_raster[1].time) \subseteq FWBins

CeilDiv(a, b) == (a + b - 1) \div b

\* Only the spike's own row has been written, by increments of one.
SingleSpikeWritesOnce ==
    \A n \in FWRows : \A k \in FWBins :
        firing[n][k] = IF n = fw_raster[1].id - fw_args.ids[1] /\ k \in IncrementedBins
                       THEN 1 ELSE 0

\* C2 (as claimed): a single spike increments exactly ceil(window/step) bins
\* of its row, with consecutive indices, when all those bins are in range.
C2_CeilBins ==
    SingleSpikeInBounds =>
        /\ SingleSpikeWritesOnce
        /\ Consecutive(IncrementedBins)
        /\ Cardinality(IncrementedBins) = CeilDiv(fw_args.window, fw_args.step)

\* The spike's offset from the opening of the last window that opened at or
\* before it, doubled.
Offset2(time) ==
    (2 * (time - fw_args.start_time) + fw_args.window) % (2 * fw_args.step)

\* C2 (amended): a single spike increments consecutive bins of its row:
\* exactly one when window < step; otherwise floor(window/step) + 1 bins when
\* its offset from the opening of the last window opened at or before it is
\* at most window mod step, and floor(window/step) bins when it is larger.
C2_FloorOrFloorPlusOne ==
    SingleSpikeInBounds =>
        /\ SingleSpikeWritesOnce
        /\ Consecutive(IncrementedBins)
        /\ Cardinality(IncrementedBins) =
             IF fw_args.window < fw_args.step THEN 1
             ELSE (fw_args.window \div fw_args.step)
                    + (IF Offset2(fw_raster[1].time)
                            <= 2 * (fw_args.window % fw_args.step)
                       THEN 1 ELSE 0)

\* C2 witness: a single in-bounds spike whose number of bins is not
\* ceil(window/step), with at least two bins incremented.
C2_Witness ==
    /\ SingleSpikeInBounds
    /\ Cardinality(IncrementedBins) >= 2
    /\ Cardinality(IncrementedBins) # CeilDiv(fw_args.window, fw_args.step)

\* C3 (as claimed): the matrix is pop_dim x elem_len with centers
\* start_time + k*step, and a raster whose spikes all lie before the first
\* window opens or after the last window closes increments no bin.
C3_EdgeSpikesDropped ==
    /\ fw_pc # "idle" =>
         /\ DOMAIN firing = FWRows
         /\ \A n \in FWRows : DOMAIN firing[n] = FWBins
    /\ fw_pc = "done" => \A k \in FWBins : fw_ret.times[k] = BinCenter(k)
    /\ (/\ fw_pc # "idle"
        /\ \A i \in 1..Len(fw_raster) :
              \/ BeforeFirstWindow(fw_raster[i].time)
              \/ AfterLastWindow(fw_raster[i].time))
       => \A n \in FWRows : \A k \in FWBins : firing[n][k] = 0

\* ------------------------------------------- calculate_threshold: claims

\* Trial k (from 0) has completed its iteration: its entries are recorded.
ThrRecorded == 0..(Len(logical_res) - 1)

ThrSamples == 1..Len(thr_args.times)

\* The start of trial k, t0 = settling_time + k*sim_time.
TrialT0(k) == thr_args.settling_time + k * thr_args.sim_time

\* The samples of the baseline window (t0, t0 + MF_time + 100].
BaselineSamples(k) ==
    { i \in ThrSamples :
        /\ thr_args.times[i] > TrialT0(k)
        /\ thr_args.times[i] <= TrialT0(k) + thr_args.MF_time + 100 }

\* The samples of the later window (t0 + MF_time + 100, t0 + IO_time].
LaterSamples(k) ==
    { i \in ThrSamples :
        /\ thr_args.times[i] > TrialT0(k) + thr_args.MF_time + 100
        /\ thr_args.times[i] <= TrialT0(k) + thr_args.IO_time }

\* The samples of trial k from t0 (exclusive) up to and including sample i.
RunningSamples(k, i) ==
    { j \in ThrSamples :
        thr_args.times[j] > TrialT0(k) /\ thr_args.times[j] <= thr_args.times[i] }

\* rate(i) > baseline*m1 + q, baseline the mean rate over the baseline window
\* (no rate is above the threshold of an empty baseline window).
AboveThreshold(k, i) ==
    LET B == BaselineSamples(k)
    IN /\ B # {}
       /\ thr_args.instf[i] * Cardinality(B)
            > thr_args.m1 * SumOver(thr_args.instf, B) + thr_args.q * Cardinality(B)

\* rate(i) > m2 * (mean of the trial's rates up to and including sample i).
AboveCumMean(k, i) ==
    LET R == RunningSamples(k, i)
    IN thr_args.instf[i] * Cardinality(R) > thr_args.m2 * SumOver(thr_args.instf, R)

\* The samples of trial k's later window at which both conditions hold.
Crossings(k) ==
    { i \in LaterSamples(k) : AboveThreshold(k, i) /\ AboveCumMean(k, i) }

\* C4: for every trial k whose iteration has completed, logical_res[k] is
\* True exactly when some sample of (t0 + MF_time + 100, t0 + IO_time] is above
\* both the linear threshold and the m2-scaled running mean; reaction_times[k]
\* is then the time of the earliest such sample minus (t0 + MF_time).
C4_ResponseIffCrossing ==
    thr_pc # "idle" =>
        /\ Len(reaction_times) = Len(logical_res)
        /\ \A k \in ThrRecorded :
              /\ logical_res[k + 1] <=> Crossings(k) # {}
              /\ logical_res[k + 1] =>
                    \E i \in Crossings(k) :
                        /\ \A h \in Crossings(k) : thr_args.times[i] <= thr_args.times[h]
                        /\ reaction_times[k + 1]
                             = thr_args.times[i] - (TrialT0(k) + thr_args.MF_time)

\* C4 witness: the function has returned with two trials responded; the
\* earliest crossing of the first is not the first sample of its later window.
C4_Witness ==
    /\ thr_pc = "done"
    /\ Len(logical_res) = 2
    /\ logical_res[1]
    /\ logical_res[2]
    /\ \E i \in LaterSamples(0) :
          thr_args.times[i] - (TrialT0(0) + thr_args.MF_time) < reaction_times[1]

FitWeight(i) == IF fit_args.fr_weights = PyNone THEN 1 ELSE fit_args.fr_weights[i]

\* C6: the returned fitness equals -sum_i((fr_i - fr_target_i)^2 * w_i^2) + S/2
\* for the spectral term S, with w_i = 1 when fr_weights is None.
C6_FitnessFormula ==
    fit_pc = "returned" =>
        2 * fitness.num
          = (-(2 * SumOver([i \in FitPops |->
                              (fit_args.fr[i] - fit_args.fr_target[i])
                                * (fit_args.fr[i] - fit_args.fr_target[i])
                                * (FitWeight(i) * FitWeight(i))],
                           FitPops))
               + fit_args.conv)
            * fitness.den

\* C6 witness: a returned fitness with two different non-unit weights, both
\* rates off target and an odd spectral term.
C6_Witness ==
    /\ fit_pc = "returned"
    /\ fit_args.fr_weights # PyNone
    /\ fit_args.fr_weights[1] = -1
    /\ fit_args.fr_weights[2] = 2
    /\ \A i \in FitPops : fit_args.fr[i] # fit_args.fr_target[i]
    /\ fit_args.conv = 1

\* A step to a call that differs only in the rate of one population, whose
\* absolute deviation from its target has increased.
DeviationIncreased(i) ==
    /\ fit_pc = "returned"
    /\ fit_pc' = "returned"
    /\ fit_args' = [fit_args EXCEPT !.fr[i] = fit_args'.fr[i]]
    /\ Abs(fit_args'.fr[i] - fit_args.fr_target[i])
         > Abs(fit_args.fr[i] - fit_args.fr_target[i])

\* C7 (as claimed): increasing the absolute deviation of one population, all
\* else fixed, strictly decreases the fitness, for every weight vector.
C7_StrictlyDecreasing ==
    [][\A i \in FitPops :
          DeviationIncreased(i) =>
              fitness'.num * fitness.den < fitness.num * fitness'.den]_vars

\* C7 (amended): increasing the absolute deviation of one population, all
\* else fixed, never increases the fitness; it strictly decreases it exactly
\* when that population's weight is not 0 (always when fr_weights is None).
C7_DecreasingUnlessZeroWeight ==
    [][\A i \in FitPops :
          DeviationIncreased(i) =>
              IF FitWeight(i) # 0
              THEN fitness'.num * fitness.den < fitness.num * fitness'.den
              ELSE fitness' = fitness]_vars

\* C7 witness: a second call has returned in which only the rate of a
\* population with weight 0 moved further from its target.
C7_Witness ==
    /\ fit_pc = "returned"
    /\ fit_prev # <<>>
    /\ FitWeight(fit_prev[1].pop) = 0
    /\ Abs(fit_args.fr[fit_prev[1].pop] - fit_args.fr_target[fit_prev[1].pop])
         > Abs(fit_prev[1].fr[fit_prev[1].pop] - fit_args.fr_target[fit_prev[1].pop])
    /\ fitness = fit_prev[1].fitness

\* -------------------------------------------------- calculate_fr: claims

CfrIds == (cfr_args.ids[1])..(cfr_args.ids[2])

\* Raster element i lies in the window: t_start < time < t_end.
SpikeInWindow(i) ==
    /\ cfr_raster[i].time > cfr_args.t_start
    /\ cfr_args.t_end # PyNone => cfr_raster[i].time < cfr_args.t_end[1]

\* The raster elements of neuron id that lie in the window.
WindowSpikesOf(id) ==
    { i \in 1..Len(cfr_raster) : cfr_raster[i].id = id /\ SpikeInWindow(i) }

\* C8: when the raster holds no spike with t_start < time < t_end (an empty
\* raster included), the function returns, without a division by zero, the
\* firing rate 0 and the CV 0 for the population.
C8_NoSpikesZeroRate ==
    (/\ cfr_pc \in {"done", "divzero"}
     /\ \A i \in 1..Len(cfr_raster) : ~SpikeInWindow(i))
    => /\ cfr_pc = "done"
       /\ cfr_ret[1].fr.num = 0
       /\ cfr_ret[1].CV.num = 0

\* C8 witness: the function has returned 0 for a raster in which one neuron
\* spikes at two different times, both outside the window.
C8_Witness ==
    /\ cfr_pc = "done"
    /\ cfr_ret[1].fr.num = 0
    /\ \A i \in 1..Len(cfr_raster) : ~SpikeInWindow(i)
    /\ \E i \in 1..Len(cfr_raster) : \E j \in 1..Len(cfr_raster) :
          /\ cfr_raster[i].id = cfr_raster[j].id
          /\ cfr_raster[i].time < cfr_raster[j].time

\* C9: no division by zero occurs; no zero-length interval is ever in an ISI
\* list; a neuron with fewer than two spikes in the window, or whose spikes
\* in the window all share one timestamp, has no recorded ISI and contributes
\* the rate 0 and the CV 0.
C9_NoDivisionByZero ==
    cfr_pc # "idle" =>
        /\ cfr_pc # "divzero"
        /\ \A n \in DOMAIN ISI_list : \A j \in 1..Len(ISI_list[n]) : ISI_list[n][j] # 0
        /\ \A id \in CfrIds :
              (\A i \in WindowSpikesOf(id) : \A j \in WindowSpikesOf(id) :
                    cfr_raster[i].time = cfr_raster[j].time)
              => /\ ISI_list[PySlot(cfr_args, id)] = <<>>
                 /\ cfr_pc = "done" =>
                      /\ cfr_ret[1].inv_mean_ISI[PySlot(cfr_args, id)].num = 0
                      /\ cfr_ret[1].CV_el[PySlot(cfr_args, id)].num = 0

\* C9 witness: the function has returned; one neuron has two spikes in the
\* window at the same timestamp, which left its ISI list empty, and it
\* contributes the rate 0 while a third spike belongs to another neuron.
C9_Witness ==
    /\ cfr_pc = "done"
    /\ Len(cfr_raster) = 3
    /\ \E id \in CfrIds :
          /\ Cardinality(WindowSpikesOf(id)) = 2
          /\ \E i \in 1..Len(cfr_raster) : cfr_raster[i].id # id
          /\ \A i \in WindowSpikesOf(id) : \A j \in WindowSpikesOf(id) :
                cfr_raster[i].time = cfr_raster[j].time
          /\ t_prev[PySlot(cfr_args, id)] # -1
          /\ cfr_ret[1].inv_mean_ISI[PySlot(cfr_args, id)].num = 0

\* ------------------------------------------ attach_spikedetector: claims

\* Population pop is listed in pop_list_to_ode.
ListedToOde(pop) ==
    /\ sd_args.pop_list_to_ode # PyNone
    /\ \E j \in 1..Len(sd_args.pop_list_to_ode[1]) : sd_args.pop_list_to_ode[1][j] = pop

\* C10 (as claimed): for a pop_list_to_ode that is an in-order subsequence of
\* pop_list, the call completes without an index error and returns one
\* detector per population of pop_list, in order: the detector given for a
\* population listed in pop_list_to_ode, a newly created detector connected
\* to the population otherwise.
C10_OneDetectorPerPopulation ==
    /\ sd_pc # "error"
    /\ sd_pc = "done" =>
         /\ Len(sd_list) = Len(sd_args.pop_list)
         /\ \A i \in 1..Len(sd_list) :
               IF ListedToOde(sd_args.pop_list[i])
               THEN sd_list[i] = GivenDetector(sd_args.pop_list[i])
               ELSE /\ sd_list[i].kind = "created"
                    /\ <<sd_args.pop_list[i], sd_list[i]>> \in nest_connected
                    /\ \A j \in 1..Len(sd_list) : j # i => sd_list[j] # sd_list[i]

\* --------------------------------------------- cumulative mean: claims

\* The samples of args a in trial k's later window
\* (t0 + MF_time + offset, t0 + IO_time].
LaterWindow(a, k, offset) ==
    { i \in 1..Len(a.times) :
        /\ a.times[i] > a.settling_time + k * a.sim_time + a.MF_time + offset
        /\ a.times[i] <= a.settling_time + k * a.sim_time + a.IO_time }

\* The fraction f is m times the mean of the rate samples of trial k from
\* the trial start t0 (exclusive) up to and including sample i.
IsScaledRunningMean(f, a, k, i, m) ==
    LET R == { j \in 1..Len(a.times) :
                 /\ a.times[j] > a.settling_time + k * a.sim_time
                 /\ a.times[j] <= a.times[i] }
    IN /\ f.den > 0
       /\ f.num * Cardinality(R) = m * SumOver(a.instf, R) * f.den

\* In iteration k of calculate_threshold every sample of the later window is
\* compared, and the value it is compared with is its scaled running mean.
ThrAligned(k) ==
    LET later == LaterIdx(thr_args, k)
        tail == CumMeanTail(thr_args, k)
    IN /\ Diff2Len(thr_args, k) = Cardinality(LaterWindow(thr_args, k, 100))
       /\ \A j \in 1..Diff2Len(thr_args, k) :
             IsScaledRunningMean(BroadcastAt(tail, j), thr_args, k, later[j],
                                 thr_args.m2)

\* The same for the iteration of calculate_cum_mean that computed cum_mean.
CmAligned ==
    LET k == cm_k - 1
        later == CmLaterIdx(cm_args, k)
        tail == NegSlice(cum_mean, Len(later))
    IN /\ Len(later) = Cardinality(LaterWindow(cm_args, k, 150))
       /\ \A j \in 1..Len(later) :
             IsScaledRunningMean(BroadcastAt(tail, j), cm_args, k, later[j],
                                 cm_args.m)

\* C11 (as claimed): in calculate_threshold and in calculate_cum_mean, for
\* every trial the cumulative-mean value compared against the rate sample at
\* time t of the later window is the scaled mean of the trial's samples from
\* t0 (exclusive) up to and including t; the comparison goes through for
\* every trial, a trial whose later window holds no sample included.
C11_CumMeanAligned ==
    /\ thr_pc # "error"
    /\ cm_pc # "error"
    /\ thr_pc # "idle" => \A k \in 0..(thr_k - 1) : ThrAligned(k)
    /\ (cm_pc # "idle" /\ cm_k > 0) => CmAligned

\* The part of C11 that the code keeps: the trials whose iteration completed
\* compared each later sample with its scaled running mean.
C11_AlignedWhenCompleted ==
    /\ thr_pc # "idle" => \A k \in 0..(thr_k - 1) : ThrAligned(k)
    /\ (cm_pc \in {"loop", "done"} /\ cm_k > 0) => CmAligned

\* A trial with a non-empty later window completed in each of the routines.
C11_NonEmptyReached ==
    \/ /\ thr_pc = "done"
       /\ \E k \in 0..(thr_k - 1) : Len(LaterIdx(thr_args, k)) >= 2
    \/ /\ cm_pc = "done"
       /\ Len(CmLaterIdx(cm_args, cm_k - 1)) >= 2

\* A trial with an empty later window made the subtraction raise.
C11_EmptyWindowRaises ==
    \/ /\ thr_pc = "error"
       /\ LaterIdx(thr_args, thr_k) = <<>>
    \/ /\ cm_pc = "error"
       /\ CmLaterIdx(cm_args, cm_k) = <<>>

\* ------------------------------------- calculate_fr: slots of the neurons

\* The times of the spikes of neuron id that lie in the window.
WindowTimesOf(id) == { cfr_raster[i].time : i \in WindowSpikesOf(id) }

\* The elements of the finite set T of numbers in increasing order.
Ascending(T) ==
    CHOOSE q \in [1..Cardinality(T) -> T] :
        \A i \in 1..(Cardinality(T) - 1) : q[i] < q[i + 1]

\* The intervals between the successive spike times of neuron id alone.
OwnISIs(id) ==
    LET q == Ascending(WindowTimesOf(id))
    IN [j \in 1..(Len(q) - 1) |-> q[j + 1] - q[j]]

\* The last spike time of neuron id alone, -1 when it has none in the window.
OwnLastSpike(id) ==
    IF WindowTimesOf(id) = {} THEN -1
    ELSE CHOOSE t \in WindowTimesOf(id) : \A u \in WindowTimesOf(id) : u <= t

\* C12: the slot computed for a spike (neuron id - lo - 1, index -1 wrapping
\* to the last position) maps the hi - lo + 1 neuron ids of [lo, hi] to
\* pairwise distinct slots of t_prev and ISI_list, every slot is the slot of
\* a neuron, and the ISI list and last spike time of a neuron's slot are those
\* of the spikes of that neuron alone: two neurons are never merged.
C12_DistinctSlots ==
    cfr_pc # "idle" =>
        /\ \A n \in CfrIds : PySlot(cfr_args, n) \in DOMAIN ISI_list
        /\ \A n \in CfrIds : \A m \in CfrIds :
              n # m => PySlot(cfr_args, n) # PySlot(cfr_args, m)
        /\ \A s \in DOMAIN ISI_list : \E n \in CfrIds : PySlot(cfr_args, n) = s
        /\ PySlot(cfr_args, cfr_args.ids[1]) = CfrPopDim(cfr_args) - 1
        /\ \A n \in CfrIds :
              /\ ISI_list[PySlot(cfr_args, n)] = OwnISIs(n)
              /\ t_prev[PySlot(cfr_args, n)] = OwnLastSpike(n)

\* C12 witness: in a population of three neurons the first neuron (index -1)
\* spikes twice in the window, at different times, the third neuron (index 1)
\* spikes in between; the function has returned with the one interval in the
\* last slot and none in the slot of the third neuron.
C12_Witness ==
    /\ cfr_pc = "done"
    /\ CfrPopDim(cfr_args) = 3
    /\ Len(cfr_raster) = 3
    /\ \A i \in 1..3 : SpikeInWindow(i)
    /\ cfr_raster[1].id = cfr_args.ids[1]
    /\ cfr_raster[2].id = cfr_args.ids[1] + 2
    /\ cfr_raster[3].id = cfr_args.ids[1]
    /\ cfr_raster[1].time < cfr_raster[3].time
    /\ ISI_list[2] = <<cfr_raster[3].time - cfr_raster[1].time>>
    /\ ISI_list[1] = <<>>
    /\ t_prev[1] = cfr_raster[2].time

\* ------------------------------- calculate_threshold: the returned lists

\* Entry k of the two lists is an entry of trial k: -1 with False, or with
\* True the time of a sample of trial k's later window counted from
\* t0 + MF_time, which is more than 100.
EntryOfTrial(k) ==
    /\ reaction_times[k + 1] = -1 <=> ~logical_res[k + 1]
    /\ logical_res[k + 1] =>
          /\ reaction_times[k + 1] > 100
          /\ \E i \in LaterSamples(k) :
                reaction_times[k + 1]
                  = thr_args.times[i] - (TrialT0(k) + thr_args.MF_time)

\* C13 (as claimed): once calculate_threshold has processed its input,
\* logical_res and reaction_times each hold exactly `trials` entries, entry k
\* belonging to trial k; reaction_times[k] is -1 exactly when logical_res[k]
\* is False, and a reaction time of a detected response is greater than 100.
C13_OneEntryPerTrial ==
    thr_pc \in {"done", "error"} =>
        /\ Len(logical_res) = thr_args.trials
        /\ Len(reaction_times) = thr_args.trials
        /\ \A k \in 0..(thr_args.trials - 1) : EntryOfTrial(k)

\* The part of C13 that the code keeps: the two lists grow together, one
\* entry per completed trial, each entry that of its trial, and a call that
\* returns has completed every trial.
C13_EntriesOfCompletedTrials ==
    thr_pc # "idle" =>
        /\ Len(logical_res) = thr_k
        /\ Len(reaction_times) = thr_k
        /\ \A k \in 0..(thr_k - 1) : EntryOfTrial(k)
        /\ thr_pc = "done" => thr_k = thr_args.trials

\* A call of two trials has returned, one trial detected and one not.
C13_ReturnedBoth ==
    /\ thr_pc = "done"
    /\ thr_args.trials = 2
    /\ logical_res[1] # logical_res[2]

\* A call of two trials stopped in its second trial, with one entry recorded.
C13_StoppedShort ==
    /\ thr_pc = "error"
    /\ thr_args.trials = 2
    /\ Len(logical_res) = 1

====
